---- MODULE Spec2Model ----
(***************************************************************************)
(* Department Store e-commerce API: the session cart (POST /cart,          *)
(* GET /cart/{session_id}), the checkout flow (POST /checkout) and the     *)
(* product lookup (GET /products/{product_id}) of main.py, over the cart,  *)
(* order and product collections of the document store.                    *)
(*                                                                         *)
(* Money is counted in integer cents.  A collection is the sequence of its *)
(* documents in natural (insertion) order.  Request handlers run on a      *)
(* thread pool: every storage call of a handler is one atomic step, and    *)
(* the steps of different requests interleave.  The statements of a        *)
(* handler that touch no collection are folded into the storage step that  *)
(* follows them.                                                           *)
(***************************************************************************)
EXTENDS Integers, Sequences, FiniteSets, TLC

\* ---------------------------------------------------------------- bounds
\* Requests served in one behaviour.
MaxCalls == 3

\* ------------------------------------------------------ program constants
\* tax = round(subtotal * 0.08, 2): the rate in percent, and the cents that
\* two decimal places stand for.
TaxRatePercent == 8
CentsPerUnit == 100

\* Worker threads serving requests, and the session ids clients send.
Procs == {1, 2}
Sessions == {"s1", "s2"}

\* Python's None; also what find_one returns when nothing matches.
None == [_id |-> 0]

\* Line items a client may send (CartItem: quantity >= 1, price in cents).
ItemA == [product_id |-> "p1", title |-> "Cookware", price |-> 1000, quantity |-> 2, image |-> "None"]
ItemB == [product_id |-> "p2", title |-> "Serum", price |-> 500, quantity |-> 1, image |-> "img2"]
ItemC == [product_id |-> "p3", title |-> "Cable", price |-> 1999, quantity |-> 1, image |-> "None"]

\* Item lists of POST /cart payloads: the empty list, 19.99, 5.00, 25.00.
ItemLists == { <<>>, <<ItemC>>, <<ItemB>>, <<ItemA, ItemB>> }

\* The subtotal field a client may put in the Cart payload.
PayloadSubtotals == {0, 4242}

\* Path parameters of GET /products/{product_id}.
SeededId == "64b000000000000000000001"
UnassignedId == "64b0000000000000000000ff"
MalformedId == "not-an-object-id"
ProductIds == {SeededId, UnassignedId, MalformedId}

\* The product collection after /seed (one document is enough here).
product == { [_id |-> SeededId, title |-> "Wireless Headphones", price |-> 12999] }

VARIABLES
  carts,     \* db["cart"]: the cart documents, in natural order
  orders,    \* db["order"]: the order documents, in natural order
  dbUp,      \* whether storage calls succeed (FALSE: they raise)
  nextId,    \* the next _id the store hands out
  ncalls,    \* requests received so far; also the clock of datetime.now
  pc,        \* per worker: the storage call its handler makes next
  data,      \* create_or_update_cart's local data
  existing,  \* create_or_update_cart's local existing
  order,     \* checkout's local order (with its _id once inserted)
  resp       \* per worker: the response to its last finished request

vars == <<carts, orders, dbUp, nextId, ncalls, pc, data, existing, order, resp>>

\* ------------------------------------------------------------ arithmetic
RECURSIVE SumLines(_)
SumLines(items) ==
  IF items = <<>> THEN 0
  ELSE items[1].price * items[1].quantity + SumLines(Tail(items))

\* round(): the integer nearest to num/den (den > 0), ties to the even one.
RoundHalfEven(num, den) ==
  LET q == num \div den
      r == num % den
  IN IF 2 * r < den THEN q
     ELSE IF 2 * r > den THEN q + 1
     ELSE IF q % 2 = 0 THEN q ELSE q + 1

\* ------------------------------------------------- document store calls
Matching(coll, sid) == { i \in 1..Len(coll) : coll[i].session_id = sid }

First(S) == CHOOSE i \in S : \A j \in S : i <= j

find_one(coll, sid) ==
  IF Matching(coll, sid) = {} THEN None ELSE coll[First(Matching(coll, sid))]

update_one(coll, id, d) ==
  [ i \in 1..Len(coll) |->
      IF coll[i]._id = id
      THEN [_id |-> id, session_id |-> d.session_id, items |-> d.items,
            subtotal |-> d.subtotal, updated_at |-> d.updated_at]
      ELSE coll[i] ]

delete_one(coll, sid) ==
  IF Matching(coll, sid) = {} THEN coll
  ELSE LET k == First(Matching(coll, sid))
       IN SubSeq(coll, 1, k - 1) \o SubSeq(coll, k + 1, Len(coll))

find_product(id) ==
  IF \E d \in product : d._id = id THEN CHOOSE d \in product : d._id = id ELSE None

\* bson.ObjectId(s) raises InvalidId unless s is 24 hex digits.
ObjectIdValid(s) == s \in {SeededId, UnassignedId}

\* database.create_document: insert under a fresh _id, return the id.
create_document(coll, d, id) == Append(coll, [_id |-> id] @@ d)

\* str(ObjectId)
str(id) == [hex |-> id]

\* ------------------------------------------------------------- responses
\* req is the number of the request answered (its arrival order).
NoResp ==
  [req |-> 0, op |-> "none", status |-> 0, detail |-> "", session_id |-> "",
   subtotal |-> 0, order_id |-> None, total |-> 0, body |-> None]

\* The only validated Customer payload the model sends.
Customers == { [name |-> "Ann", email |-> "ann@example.com"] }

\* HTTPException(status_code, detail), raised while serving request req.
HTTPException(req, op, sid, status, detail) ==
  [NoResp EXCEPT !.req = req, !.op = op, !.session_id = sid, !.status = status,
                 !.detail = detail]

Init ==
  /\ carts = <<>>
  /\ orders = <<>>
  /\ dbUp = TRUE
  /\ nextId = 1
  /\ ncalls = 0
  /\ pc = [p \in Procs |-> "idle"]
  /\ data = [p \in Procs |-> None]
  /\ existing = [p \in Procs |-> None]
  /\ order = [p \in Procs |-> None]
  /\ resp = [p \in Procs |-> NoResp]

\* The storage backend becomes unreachable, or reachable again: while it is
\* down every storage call raises.
storage_fault ==
  /\ dbUp' = ~dbUp
  /\ UNCHANGED <<carts, orders, nextId, ncalls, pc, data, existing, order, resp>>

\* ------------------------------------------------------------ POST /cart
\* Mutant: the subtotal of the request payload is kept instead of recomputed.
cart_subtotal_from_payload(items, payload_subtotal) == payload_subtotal

cart_subtotal(items, payload_subtotal) == RoundHalfEven(SumLines(items), 1)

cart_data(sid, items, payload_subtotal, now) ==
  [session_id |-> sid, items |-> items,
   subtotal |-> cart_subtotal(items, payload_subtotal), updated_at |-> now]

\* Mutant: the new items are appended to the stored ones instead of replacing them.
cart_write_append(coll, ex, d, id) ==
  IF ex # None
  THEN update_one(coll, ex._id, [d EXCEPT !.items = ex.items \o d.items])
  ELSE create_document(coll, d, id)

cart_write(coll, ex, d, id) ==
  IF ex # None THEN update_one(coll, ex._id, d) ELSE create_document(coll, d, id)

\* Lines 164-169: build data, then look the session's cart up.
create_or_update_cart_find(p) ==
  /\ pc[p] = "idle"
  /\ ncalls < MaxCalls
  /\ ncalls' = ncalls + 1
  /\ \E sid \in Sessions, items \in ItemLists, sub \in PayloadSubtotals :
       IF dbUp
       THEN /\ data' = [data EXCEPT ![p] = cart_data(sid, items, sub, ncalls')]
            /\ existing' = [existing EXCEPT ![p] = find_one(carts, sid)]
            /\ pc' = [pc EXCEPT ![p] = "cart_write"]
            /\ resp' = [resp EXCEPT ![p] = NoResp]
       ELSE /\ resp' = [resp EXCEPT ![p] =
                          HTTPException(ncalls', "create_or_update_cart", sid, 500,
                                        "find_one failed")]
            /\ UNCHANGED <<data, existing, pc>>
  /\ UNCHANGED <<carts, orders, dbUp, nextId, order>>

\* Lines 170-176: update the document found, or insert a new one; answer.
create_or_update_cart_write(p) ==
  /\ pc[p] = "cart_write"
  /\ IF dbUp
     THEN /\ carts' = cart_write(carts, existing[p], data[p], nextId)
          /\ nextId' = IF existing[p] # None THEN nextId ELSE nextId + 1
          /\ resp' = [resp EXCEPT ![p] =
                        [NoResp EXCEPT !.req = data[p].updated_at,
                                       !.op = "create_or_update_cart",
                                       !.session_id = data[p].session_id,
                                       !.status = 200, !.detail = "ok",
                                       !.subtotal = data[p].subtotal]]
     ELSE /\ resp' = [resp EXCEPT ![p] =
                        HTTPException(data[p].updated_at, "create_or_update_cart",
                                      data[p].session_id,
                                      500, "write failed")]
          /\ UNCHANGED <<carts, nextId>>
  /\ pc' = [pc EXCEPT ![p] = "idle"]
  /\ data' = [data EXCEPT ![p] = None]
  /\ existing' = [existing EXCEPT ![p] = None]
  /\ UNCHANGED <<orders, dbUp, ncalls, order>>

\* ------------------------------------------------ GET /cart/{session_id}
get_cart_body(sid, cart) ==
  IF cart = None
  THEN [session_id |-> sid, items |-> <<>>, subtotal |-> 0]
  ELSE [cart EXCEPT !._id = str(cart._id)]

get_cart(p) ==
  /\ pc[p] = "idle"
  /\ ncalls < MaxCalls
  /\ ncalls' = ncalls + 1
  /\ \E sid \in Sessions :
       resp' = [resp EXCEPT ![p] =
                  IF dbUp
                  THEN [NoResp EXCEPT !.req = ncalls', !.op = "get_cart", !.session_id = sid,
                                      !.status = 200, !.detail = "ok",
                                      !.body = get_cart_body(sid, find_one(carts, sid))]
                  ELSE HTTPException(ncalls', "get_cart", sid, 500, "find_one failed")]
  /\ UNCHANGED <<carts, orders, dbUp, nextId, pc, data, existing, order>>

\* -------------------------------------------------------- POST /checkout
\* Mutant: only a missing cart is refused, a cart without items is not.
is_empty_cart_missing_only(cart) == cart = None

is_empty_cart(cart) == cart = None \/ cart.items = <<>>

order_items(items) ==
  [ i \in 1..Len(items) |->
      [product_id |-> items[i].product_id, title |-> items[i].title,
       price |-> items[i].price, quantity |-> items[i].quantity,
       image |-> items[i].image] ]

\* Mutant: the tax is cut to whole cents instead of rounded.
order_tax_truncated(subtotal) == (subtotal * TaxRatePercent) \div CentsPerUnit

order_tax(subtotal) == RoundHalfEven(subtotal * TaxRatePercent, CentsPerUnit)

order_total(subtotal, tax) == RoundHalfEven(subtotal + tax, 1)

build_order(sid, customer, cart, now) ==
  [session_id |-> sid, customer |-> customer, items |-> order_items(cart.items),
   subtotal |-> cart.subtotal, tax |-> order_tax(cart.subtotal),
   total |-> order_total(cart.subtotal, order_tax(cart.subtotal)),
   status |-> "processing", placed_at |-> now]

\* Lines 200-223: read the cart, refuse an empty one, build the Order.
checkout_find(p) ==
  /\ pc[p] = "idle"
  /\ ncalls < MaxCalls
  /\ ncalls' = ncalls + 1
  /\ \E sid \in Sessions, customer \in Customers :
       IF ~dbUp
       THEN /\ resp' = [resp EXCEPT ![p] =
                          HTTPException(ncalls', "checkout", sid, 500, "find_one failed")]
            /\ UNCHANGED <<pc, order>>
       ELSE IF is_empty_cart(find_one(carts, sid))
       THEN /\ resp' = [resp EXCEPT ![p] =
                          HTTPException(ncalls', "checkout", sid, 400, "Cart is empty")]
            /\ UNCHANGED <<pc, order>>
       ELSE /\ order' = [order EXCEPT ![p] =
                           build_order(sid, customer, find_one(carts, sid), ncalls')]
            /\ pc' = [pc EXCEPT ![p] = "checkout_insert"]
            /\ resp' = [resp EXCEPT ![p] = NoResp]
  /\ UNCHANGED <<carts, orders, dbUp, nextId, data, existing>>

\* Mutant: the cart is cleared first, before the order is stored.
checkout_insert_clears_cart_first(p) ==
  /\ pc[p] = "checkout_insert"
  /\ dbUp
  /\ carts' = delete_one(carts, order[p].session_id)
  /\ nextId' = nextId + 1
  /\ order' = [order EXCEPT ![p] = [_id |-> nextId] @@ order[p]]
  /\ pc' = [pc EXCEPT ![p] = "checkout_delete"]
  /\ UNCHANGED <<orders, dbUp, ncalls, data, resp, existing>>

\* Mutant: the order is stored twice (a retried insert).
checkout_insert_twice(p) ==
  /\ pc[p] = "checkout_insert"
  /\ dbUp
  /\ orders' = create_document(create_document(orders, order[p], nextId), order[p], nextId + 1)
  /\ nextId' = nextId + 2
  /\ order' = [order EXCEPT ![p] = [_id |-> nextId] @@ order[p]]
  /\ pc' = [pc EXCEPT ![p] = "checkout_delete"]
  /\ UNCHANGED <<carts, dbUp, ncalls, data, resp, existing>>

\* Line 224: order_id = create_document("order", order)
checkout_insert(p) ==
  /\ pc[p] = "checkout_insert"
  /\ IF dbUp
     THEN /\ orders' = create_document(orders, order[p], nextId)
          /\ nextId' = nextId + 1
          /\ order' = [order EXCEPT ![p] = [_id |-> nextId] @@ order[p]]
          /\ pc' = [pc EXCEPT ![p] = "checkout_delete"]
          /\ UNCHANGED resp
     ELSE /\ resp' = [resp EXCEPT ![p] =
                        HTTPException(order[p].placed_at, "checkout",
                                      order[p].session_id, 500, "insert_one failed")]
          /\ pc' = [pc EXCEPT ![p] = "idle"]
          /\ order' = [order EXCEPT ![p] = None]
          /\ UNCHANGED <<orders, nextId>>
  /\ UNCHANGED <<carts, dbUp, ncalls, data, existing>>

\* Lines 226-227: delete the session's cart; answer with the order's total.
checkout_delete(p) ==
  /\ pc[p] = "checkout_delete"
  /\ IF dbUp
     THEN /\ carts' = delete_one(carts, order[p].session_id)
          /\ resp' = [resp EXCEPT ![p] =
                        [NoResp EXCEPT !.req = order[p].placed_at, !.op = "checkout",
                                       !.session_id = order[p].session_id,
                                       !.status = 200, !.detail = "ok",
                                       !.order_id = str(order[p]._id),
                                       !.total = order[p].total]]
     ELSE /\ resp' = [resp EXCEPT ![p] =
                        HTTPException(order[p].placed_at, "checkout",
                                      order[p].session_id, 500, "delete_one failed")]
          /\ UNCHANGED carts
  /\ pc' = [pc EXCEPT ![p] = "idle"]
  /\ order' = [order EXCEPT ![p] = None]
  /\ UNCHANGED <<orders, dbUp, nextId, ncalls, data, existing>>

\* --------------------------------------------- GET /products/{product_id}
get_product_response(req, product_id, up) ==
  IF ~ObjectIdValid(product_id)
  THEN HTTPException(req, "get_product", product_id, 500, "InvalidId")
  ELSE IF ~up
  THEN HTTPException(req, "get_product", product_id, 500, "find_one failed")
  ELSE IF find_product(product_id) = None
  THEN \* the 404 raised at line 152 is an Exception: line 155 catches it
       HTTPException(req, "get_product", product_id, 500, "404: Product not found")
  ELSE [NoResp EXCEPT !.req = req, !.op = "get_product", !.session_id = product_id,
                      !.status = 200, !.detail = "ok",
                      !.body = [find_product(product_id) EXCEPT !._id = str(product_id)]]

get_product(p) ==
  /\ pc[p] = "idle"
  /\ ncalls < MaxCalls
  /\ ncalls' = ncalls + 1
  /\ \E product_id \in ProductIds :
       resp' = [resp EXCEPT ![p] = get_product_response(ncalls', product_id, dbUp)]
  /\ UNCHANGED <<carts, orders, dbUp, nextId, pc, data, existing, order>>

Next ==
  \/ storage_fault
  \/ \E p \in Procs : create_or_update_cart_find(p)
  \/ \E p \in Procs : create_or_update_cart_write(p)
  \/ \E p \in Procs : get_cart(p)
  \/ \E p \in Procs : checkout_find(p)
  \/ \E p \in Procs : checkout_insert(p)
  \/ \E p \in Procs : checkout_delete(p)
  \/ \E p \in Procs : get_product(p)

Spec == Init /\ [][Next]_vars

\* =================================================================
\* Properties
\* =================================================================
Range(f) == { f[i] : i \in DOMAIN f }

CartsOf(coll, sid) == { d \in Range(coll) : d.session_id = sid }

\* Worker p takes the first step of a checkout request for session sid.
CheckoutCalled(p, sid) ==
  /\ pc[p] = "idle"
  /\ ncalls' = ncalls + 1
  /\ \/ pc'[p] = "checkout_insert" /\ order'[p].session_id = sid
     \/ /\ pc'[p] = "idle"
        /\ resp'[p].req = ncalls'
        /\ resp'[p].op = "checkout"
        /\ resp'[p].session_id = sid

\* Worker p answers its checkout request with success in this step.
CheckoutSucceeds(p) ==
  pc[p] = "checkout_delete" /\ pc'[p] = "idle" /\ resp'[p].status = 200

\* Worker p answers its POST /cart request with success in this step.
UpsertSucceeds(p) ==
  pc[p] = "cart_write" /\ pc'[p] = "idle" /\ resp'[p].status = 200

\* t is the whole number of cents nearest to num/den, ties to the even one.
NearestCent(t, num, den) ==
  /\ 2 * (t * den - num) <= den
  /\ 2 * (num - t * den) <= den
  /\ (2 * (t * den - num) = den \/ 2 * (num - t * den) = den) => t % 2 = 0

\* C1: a checkout of a session that has no cart, or whose cart has no
\* items, is answered 400 "Cart is empty" while the store is reachable, and
\* it writes nothing: the cart and order collections are as before.
C1_EmptyCartRejected ==
  [][ \A p \in Procs, sid \in Sessions :
        ( /\ dbUp
          /\ CheckoutCalled(p, sid)
          /\ \/ CartsOf(carts, sid) = {}
             \/ find_one(carts, sid).items = <<>> )
        => /\ pc'[p] = "idle"
           /\ resp'[p].status = 400
           /\ resp'[p].detail = "Cart is empty"
           /\ carts' = carts
           /\ orders' = orders ]_vars

\* C1 witness: a checkout was answered 400 for a session whose stored cart
\* exists and has no items.
C1_Witness ==
  \E p \in Procs :
    /\ resp[p].op = "checkout"
    /\ resp[p].status = 400
    /\ resp[p].req = ncalls
    /\ CartsOf(carts, resp[p].session_id) # {}
    /\ \A d \in CartsOf(carts, resp[p].session_id) : d.items = <<>> /\ d.updated_at < ncalls
    /\ orders = <<>>

\* C2: the order insert precedes the cart delete.  A step that removes a
\* cart document is the delete of a checkout whose order is already stored;
\* a checkout that fails at the delete leaves its order stored and the carts
\* as they were; a checkout that fails before or at the insert leaves both
\* collections as they were, with no order of its own.
C2_OrderBeforeCartDelete ==
  [][ /\ Len(carts') < Len(carts)
         => \E p \in Procs :
              /\ pc[p] = "checkout_delete"
              /\ order[p] \in Range(orders)
              /\ carts' = delete_one(carts, order[p].session_id)
      /\ \A p \in Procs :
           /\ (pc[p] = "checkout_delete" /\ pc'[p] = "idle" /\ resp'[p].status # 200)
                 => (carts' = carts /\ order[p] \in Range(orders'))
           /\ (pc[p] = "checkout_insert" /\ pc'[p] = "idle")
                 => /\ carts' = carts
                    /\ orders' = orders
                    /\ \A o \in Range(orders') : o.placed_at # order[p].placed_at
           /\ \A sid \in Sessions :
                (CheckoutCalled(p, sid) /\ pc'[p] = "idle")
                  => (carts' = carts /\ orders' = orders) ]_vars

\* C2 witness: a checkout failed at the cart delete: its order is stored and
\* the cart it read is still there.
C2_Witness ==
  \E p \in Procs :
    /\ resp[p].op = "checkout"
    /\ resp[p].detail = "delete_one failed"
    /\ \E o \in Range(orders) :
         /\ o.placed_at = resp[p].req
         /\ \E c \in CartsOf(carts, resp[p].session_id) : c.items = o.items

\* C3: a checkout that gets past the cart check builds its order from the
\* cart it read: the same subtotal, tax = subtotal * 0.08 rounded to the
\* cent, total = subtotal + tax rounded to the cent, the items copied one
\* by one in the same order, status "processing".  The insert stores that
\* order once, unchanged, and a successful checkout returns its total.
C3_OrderFromCart ==
  [][ \A p \in Procs :
        /\ (pc[p] = "idle" /\ pc'[p] = "checkout_insert")
             => LET c == find_one(carts, order'[p].session_id)
                    o == order'[p]
                IN /\ c.items # <<>>
                   /\ o.subtotal = c.subtotal
                   /\ NearestCent(o.tax, c.subtotal * TaxRatePercent, CentsPerUnit)
                   /\ NearestCent(o.total, o.subtotal + o.tax, 1)
                   /\ o.status = "processing"
                   /\ Len(o.items) = Len(c.items)
                   /\ \A i \in 1..Len(c.items) :
                        /\ o.items[i].product_id = c.items[i].product_id
                        /\ o.items[i].title = c.items[i].title
                        /\ o.items[i].price = c.items[i].price
                        /\ o.items[i].quantity = c.items[i].quantity
                        /\ o.items[i].image = c.items[i].image
        /\ (pc[p] = "checkout_insert" /\ pc'[p] = "checkout_delete")
             => /\ orders' = Append(orders, order'[p])
                /\ order'[p] = [_id |-> order'[p]._id] @@ order[p]
        /\ CheckoutSucceeds(p)
             => /\ resp'[p].total = order[p].total
                /\ order[p] \in Range(orders')
                /\ Cardinality({ i \in DOMAIN orders' :
                                   orders'[i].placed_at = order[p].placed_at }) = 1 ]_vars

\* C3 witness: the cart of 2 x 10.00 and 1 x 5.00 was checked out: the order
\* has subtotal 25.00, tax 2.00, total 27.00, and 27.00 was returned.
C3_Witness ==
  \E p \in Procs :
    /\ resp[p].op = "checkout"
    /\ resp[p].status = 200
    /\ resp[p].total = 2700
    /\ \E o \in Range(orders) :
         /\ o.placed_at = resp[p].req
         /\ o.items = <<ItemA, ItemB>>
         /\ o.subtotal = 2500 /\ o.tax = 200 /\ o.total = 2700

\* C4: when a checkout for a session succeeds, no cart document of that
\* session is left.
C4_NoCartAfterCheckout ==
  [][ \A p \in Procs :
        CheckoutSucceeds(p) => CartsOf(carts', order[p].session_id) = {} ]_vars

\* C5: every stored cart has subtotal = the sum of price * quantity over its
\* items, rounded to the cent; POST /cart returns that sum, whatever subtotal
\* the payload carried, and GET /cart returns a cart whose subtotal is that
\* sum.
C5_SubtotalRecomputed ==
  [][ /\ \A d \in Range(carts') : NearestCent(d.subtotal, SumLines(d.items), 1)
      /\ \A p \in Procs :
           /\ UpsertSucceeds(p) => resp'[p].subtotal = SumLines(data[p].items)
           /\ (resp'[p].op = "get_cart" /\ resp'[p].status = 200)
                => resp'[p].body.subtotal = SumLines(resp'[p].body.items) ]_vars

\* C5 witness: a POST /cart with two lines was answered 25.00 and the stored
\* cart holds 25.00, which no request payload carried as its subtotal.
C5_Witness ==
  \E p \in Procs :
    /\ resp[p].op = "create_or_update_cart"
    /\ resp[p].status = 200
    /\ resp[p].subtotal = 2500
    /\ resp[p].subtotal \notin PayloadSubtotals
    /\ \E d \in CartsOf(carts, resp[p].session_id) :
         d.items = <<ItemA, ItemB>> /\ d.subtotal = 2500 /\ d.updated_at = resp[p].req

\* C6: the cart collection holds at most one document per session_id.
C6_OneCartPerSession ==
  \A sid \in Sessions : Cardinality(Matching(carts, sid)) <= 1

\* C7: a POST /cart that succeeds, the cart it looked up not having changed
\* since, leaves the session's cart with exactly the items sent and their
\* recomputed subtotal, touches no other document and adds a document only
\* when the session had none; sending the items already stored changes
\* nothing but updated_at.
C7_UpsertReplaces ==
  [][ \A p \in Procs :
        (UpsertSucceeds(p) /\ existing[p] = find_one(carts, data[p].session_id))
        => LET c == find_one(carts', data[p].session_id)
           IN /\ c # None
              /\ c.items = data[p].items
              /\ c.subtotal = SumLines(data[p].items)
              /\ c.updated_at = data[p].updated_at
              /\ Len(carts') = IF existing[p] = None THEN Len(carts) + 1 ELSE Len(carts)
              /\ \A i \in DOMAIN carts : carts[i]._id # c._id => carts'[i] = carts[i]
              /\ (existing[p] # None /\ existing[p].items = data[p].items)
                   => \A i \in DOMAIN carts :
                        carts'[i] = [carts[i] EXCEPT !.updated_at = carts'[i].updated_at] ]_vars

\* C7 witness: two POST /cart requests for one session ran one after the
\* other; the first stored two lines (25.00), the second one line (5.00);
\* the single stored cart now holds that one line.
C7_Witness ==
  /\ ncalls = 2
  /\ nextId = 2
  /\ Len(carts) = 1
  /\ carts[1].items = <<ItemB>>
  /\ carts[1].subtotal = 500
  /\ carts[1].updated_at = 2
  /\ \E p, q \in Procs :
       /\ resp[p].op = "create_or_update_cart" /\ resp[p].status = 200
       /\ resp[p].req = 1 /\ resp[p].subtotal = 2500
       /\ resp[q].op = "create_or_update_cart" /\ resp[q].status = 200
       /\ resp[q].req = 2 /\ resp[q].subtotal = 500
       /\ resp[p].session_id = carts[1].session_id
       /\ resp[q].session_id = carts[1].session_id

\* C8: GET /products/{id} answers 404 for a well-formed id no product has,
\* and a client error (4xx) for an id that is not well-formed.
C8_ProductClientErrors ==
  \A p \in Procs :
    resp[p].op = "get_product"
    => /\ (resp[p].session_id = UnassignedId /\ resp[p].detail # "find_one failed")
            => resp[p].status = 404
       /\ resp[p].session_id = MalformedId
            => resp[p].status \in 400..499

\* C9: every successful checkout creates exactly one order: the order
\* collection changes only by the insert step of a checkout, which appends
\* one order under a fresh id, and a checkout answered with success has
\* exactly one order stored under the id it returns.
C9_OneOrderPerCheckout ==
  [][ /\ orders' # orders
         => \E p \in Procs :
              /\ pc[p] = "checkout_insert"
              /\ pc'[p] = "checkout_delete"
              /\ Len(orders') = Len(orders) + 1
              /\ SubSeq(orders', 1, Len(orders)) = orders
              /\ \A o \in Range(orders) : o._id # orders'[Len(orders')]._id
              /\ orders'[Len(orders')]._id = order'[p]._id
      /\ \A p \in Procs :
           /\ (pc[p] = "checkout_insert" /\ pc'[p] = "checkout_delete")
                => Len(orders') = Len(orders) + 1
           /\ CheckoutSucceeds(p)
                => /\ resp'[p].order_id = str(order[p]._id)
                   /\ Cardinality({ i \in DOMAIN orders' :
                                      orders'[i]._id = order[p]._id }) = 1
                   /\ Cardinality({ i \in DOMAIN orders' :
                                      orders'[i].placed_at = order[p].placed_at }) = 1 ]_vars

\* C9 witness: one cart was stored once and both workers checked it out with
\* success: two orders with the same items and totals exist.
C9_Witness ==
  /\ ncalls = 3
  /\ nextId = 4
  /\ Len(orders) = 2
  /\ orders[1].items = orders[2].items
  /\ orders[1].total = orders[2].total
  /\ orders[1].session_id = orders[2].session_id
  /\ orders[1]._id # orders[2]._id
  /\ \A p \in Procs :
       /\ resp[p].op = "checkout"
       /\ resp[p].status = 200
       /\ resp[p].session_id = orders[1].session_id
  /\ resp[1].order_id # resp[2].order_id

\* C10: (1) the cart a checkout deletes holds the items copied into its
\* order; (2) after a POST /cart is answered ok, the session has a stored
\* cart with the items sent.
C10_NoLostCartWrite ==
  [][ \A p \in Procs :
        /\ (CheckoutSucceeds(p) /\ carts' # carts)
             => find_one(carts, order[p].session_id).items = order[p].items
        /\ UpsertSucceeds(p)
             => \E d \in CartsOf(carts', data[p].session_id) : d.items = data[p].items ]_vars

====
